---- MODULE Spec2Model ----
(***************************************************************************)
(* A model of pubplots.py: scale, get_rc_params and the destination        *)
(* context manager, together with the two stores destination writes to:    *)
(* the context variable _scaling_ctx (one value per logical context) and   *)
(* matplotlib's process-wide rcParams.                                     *)
(*                                                                         *)
(* Numbers are exact rationals <<n, d>> in lowest terms with d > 0.  Every *)
(* number the model uses is a dyadic rational of small size, on which      *)
(* Python's float arithmetic is exact (300 / 96 is exactly 3.125).         *)
(* An optional value is a sequence: <<>> is absent, <<v>> is present.      *)
(***************************************************************************)
EXTENDS Integers, Sequences, FiniteSets, TLC

VARIABLES scaling_ctx, rcParams, stack, exc, last, lastRestorer, ret

vars == <<scaling_ctx, rcParams, stack, exc, last, lastRestorer, ret>>

(* ------------------------------ bounds --------------------------------- *)

\* deepest nesting of destination scopes in one logical context
MaxDepth == 2
\* deepest nesting in the second of two concurrent logical contexts
MaxConcDepth == 1
\* longest tuple / argument list handed to scale
MaxLen == 2

Contexts == {1, 2}
SeqContexts == {1}

None == <<>>
Some(x) == <<x>>

(* ----------------------------- rationals ------------------------------- *)

Abs(n) == IF n < 0 THEN -n ELSE n

RECURSIVE GCD(_, _)
GCD(a, b) == IF b = 0 THEN a ELSE GCD(b, a % b)

Norm(q) ==
    LET g == GCD(Abs(q[1]), Abs(q[2]))
        s == IF q[2] < 0 THEN -1 ELSE 1
    IN  <<(s * q[1]) \div g, (s * q[2]) \div g>>

Whole(n) == <<n, 1>>
Mul(a, b) == Norm(<<a[1] * b[1], a[2] * b[2]>>)
Div(a, b) == Norm(<<a[1] * b[2], a[2] * b[1]>>)

(* ------------------------- the context variable ------------------------ *)

\* _scaling_ctx = ContextVar("scaling", default=1.0)
CtxDefault == Whole(1)

\* ContextVar.get(): the context's value, or the default when never set
ctx_get(ctx) == IF ctx = None THEN CtxDefault ELSE ctx[1]

\* a bare module global instead of a context variable: one slot for all
ctx_set_global(amb, c, v) == [x \in DOMAIN amb |-> Some(v)]

\* ContextVar.set(v) in context c: only c's slot changes
ctx_set(amb, c, v) == [amb EXCEPT ![c] = Some(v)]

(* -------------------------------- scale -------------------------------- *)

\* One positional argument, or the returned value, of scale: a number
\* (vals has length 1) or a tuple of numbers.
Scalar(x) == [shape |-> "scalar", vals |-> <<x>>]
Tuple(s) == [shape |-> "tuple", vals |-> s]

\* scale without the isinstance test: everything comes back as a tuple
scale_always_tuple(values, scaling_factor, ctx) ==
    LET f == IF scaling_factor = None THEN ctx_get(ctx) ELSE scaling_factor[1]
        flat == IF Len(values) = 1 THEN values[1].vals
                ELSE [i \in 1..Len(values) |-> values[i].vals[1]]
    IN  Tuple([i \in 1..Len(flat) |-> Mul(flat[i], f)])

\* scale(*values, scaling_factor=None); ctx is _scaling_ctx in the caller's
\* context.  With several positional arguments each one is a number.
scale(values, scaling_factor, ctx) ==
    LET f == IF scaling_factor = None THEN ctx_get(ctx) ELSE scaling_factor[1]
    IN  IF Len(values) = 1
        THEN LET v == values[1]
             IN  IF v.shape = "tuple"
                 THEN Tuple([i \in 1..Len(v.vals) |-> Mul(v.vals[i], f)])
                 ELSE Scalar(Mul(v.vals[1], f))
        ELSE Tuple([i \in 1..Len(values) |-> Mul(values[i].vals[1], f)])

(* ---------------------------- configuration ---------------------------- *)

\* A configuration value: a number, a string, a list of strings or a bool.
Num(q) == [kind |-> "num", s |-> <<>>, q |-> q]
Str(x) == [kind |-> "str", s |-> <<x>>, q |-> Whole(0)]
StrList(xs) == [kind |-> "list", s |-> xs, q |-> Whole(0)]
Bool(b) == [kind |-> "bool", s |-> <<>>, q |-> IF b THEN Whole(1) ELSE Whole(0)]

\* the keys of rc_params, in the order the dict literal inserts them
ParamOrder ==
    <<"font.family", "font.sans-serif", "font.size", "axes.titlesize",
      "axes.labelsize", "xtick.labelsize", "ytick.labelsize",
      "legend.fontsize", "figure.titlesize", "figure.labelsize",
      "figure.dpi", "figure.autolayout", "savefig.dpi", "savefig.format",
      "svg.fonttype", "pdf.fonttype">>

ParamKeys == {ParamOrder[i] : i \in 1..Len(ParamOrder)}

\* keys of the store that rc_params does not mention
OtherKeys == {"backend", "lines.linewidth"}

Keys == ParamKeys \cup OtherKeys

\* the pt convention of every other application used for Figma too
scaling_of_72(destination) ==
    IF destination = "figma" THEN Div(Whole(300), Whole(72)) ELSE Whole(1)

\* get_rc_params: the factor chosen for a destination name
scaling_of(destination) ==
    IF destination = "figma" THEN Div(Whole(300), Whole(96)) ELSE Whole(1)

\* get_rc_params: the rc_params dict literal
rc_params_of(scaling) ==
    [k \in ParamKeys |->
        CASE k = "font.family"       -> Str("sans-serif")
          [] k = "font.sans-serif"   -> StrList(<<"Arial">>)
          [] k = "font.size"         -> Num(Mul(Whole(6), scaling))
          [] k = "axes.titlesize"    -> Num(Mul(Whole(6), scaling))
          [] k = "axes.labelsize"    -> Num(Mul(Whole(6), scaling))
          [] k = "xtick.labelsize"   -> Num(Mul(Whole(5), scaling))
          [] k = "ytick.labelsize"   -> Num(Mul(Whole(5), scaling))
          [] k = "legend.fontsize"   -> Num(Mul(Whole(6), scaling))
          [] k = "figure.titlesize"  -> Num(Mul(Whole(7), scaling))
          [] k = "figure.labelsize"  -> Num(Mul(Whole(7), scaling))
          [] k = "figure.dpi"        -> Num(Div(Whole(150), scaling))
          [] k = "figure.autolayout" -> Bool(TRUE)
          [] k = "savefig.dpi"       -> Num(Whole(300))
          [] k = "savefig.format"    -> Str("svg")
          [] k = "svg.fonttype"      -> Str("none")
          [] k = "pdf.fonttype"      -> Num(Whole(42))]

\* get_rc_params(destination): the returned pair.  The closure _scale is
\* represented by the variable it captures, scaling.
get_rc_params(destination) ==
    [rc_params |-> rc_params_of(scaling_of(destination)),
     scaling |-> scaling_of(destination)]

\* the closure reading the ambient factor instead of its own
scaler_ambient(values, scaling, ctx) == scale(values, None, ctx)

\* get_rc_params._scale: scale(*values, scaling_factor=scaling)
scaler(values, scaling, ctx) == scale(values, Some(scaling), ctx)

(* --------------------- matplotlib's rcParams store --------------------- *)

\* import matplotlib as mpl: the values the store holds when the module is
\* loaded (matplotlib's shipped defaults for the keys modelled, the list of
\* sans-serif fonts shortened to two names).
MplDefaults ==
    [k \in Keys |->
        CASE k = "font.family"       -> StrList(<<"sans-serif">>)
          [] k = "font.sans-serif"   -> StrList(<<"DejaVu Sans", "Arial">>)
          [] k = "font.size"         -> Num(Whole(10))
          [] k = "axes.titlesize"    -> Str("large")
          [] k = "axes.labelsize"    -> Str("medium")
          [] k = "xtick.labelsize"   -> Str("medium")
          [] k = "ytick.labelsize"   -> Str("medium")
          [] k = "legend.fontsize"   -> Str("medium")
          [] k = "figure.titlesize"  -> Str("large")
          [] k = "figure.labelsize"  -> Str("large")
          [] k = "figure.dpi"        -> Num(Whole(100))
          [] k = "figure.autolayout" -> Bool(FALSE)
          [] k = "savefig.dpi"       -> Str("figure")
          [] k = "savefig.format"    -> Str("png")
          [] k = "svg.fonttype"      -> Str("path")
          [] k = "pdf.fonttype"      -> Num(Whole(3))
          [] k = "backend"           -> Str("agg")
          [] k = "lines.linewidth"   -> Num(<<3, 2>>)]

\* RcParams.__setitem__ stores the validated value: a string given for
\* font.family becomes a one-element list; the other values modelled are
\* stored as given.
validate(k, v) ==
    IF k = "font.family" /\ v.kind = "str" THEN StrList(v.s) ELSE v

\* rcParams.update(params), which sets the keys in insertion order; n is the
\* number of keys set before the store raised (Len(ParamOrder) when none did)
rc_update(cur, params, n) ==
    [k \in Keys |->
        IF \E i \in 1..n : ParamOrder[i] = k THEN validate(k, params[k])
        ELSE cur[k]]

\* rc_context entry: orig = dict(rcParams.copy()); del orig['backend']
rc_snapshot(cur) == [k \in Keys \ {"backend"} |-> cur[k]]

\* exit that puts the library defaults back (rcdefaults) instead of orig
rc_restore_defaults(cur, orig) == MplDefaults

\* exit that undoes only the keys of the parameter mapping
rc_restore_overrides(cur, orig) ==
    [k \in Keys |-> IF k \in ParamKeys THEN orig[k] ELSE cur[k]]

\* exit that reverts nothing
rc_restore_nothing(cur, orig) == cur

\* rc_context exit: dict.update(rcParams, orig)
rc_restore(cur, orig) ==
    [k \in Keys |-> IF k \in DOMAIN orig THEN orig[k] ELSE cur[k]]

(* -------------------- leaving the try ... finally ---------------------- *)

\* how a scope is left: the block completed, the block raised, or the
\* store rejected the mapping on entry
Hows == {"normal", "raised", "rejected"}

\* reset only when the block completes (no finally)
ctx_reset_no_finally(cur, token, how) == IF how = "normal" THEN token ELSE cur

\* reset only once the block was reached (try opened inside the with)
ctx_reset_after_entry(cur, token, how) ==
    IF how = "rejected" THEN cur ELSE token

\* back to the default instead of to the token's old value
ctx_reset_to_default(cur, token, how) == None

\* finally: _scaling_ctx.reset(token), on every way out; token is the value
\* the variable held before set (absent when it had none)
ctx_reset(cur, token, how) == token

(* ------------------------------- inputs -------------------------------- *)

\* destination names: the special one, the default, and one that differs
\* from the special one only in case
Destinations == {"figma", "default", "Figma"}
ConcDestinations == {"figma", "default"}

Scalars == {Whole(1), Whole(2), <<-3, 2>>}
Factors == {<<1, 2>>, <<25, 8>>}

\* tuples of every length from 0 to MaxLen: the prefixes of two sequences
Elems(i) == IF i % 2 = 1 THEN Whole(2) ELSE <<-3, 2>>
TupleInputs ==
    {[i \in 1..m |-> Elems(i)] : m \in 0..MaxLen}
    \cup {[i \in 1..m |-> Elems(i + 1)] : m \in 0..MaxLen}

\* the positional arguments of one call: one number, one tuple (of any
\* length from 0), or no or several numbers
ArgLists ==
    {<<Scalar(x)>> : x \in Scalars}
    \cup {<<Tuple(s)>> : s \in TupleInputs}
    \cup {[i \in 1..Len(s) |-> Scalar(s[i])] :
            s \in {q \in TupleInputs : Len(q) # 1}}

\* positions in ParamOrder at which the store may refuse a key
RejectAt == {1, 10, Len(ParamOrder)}

\* what the caller's block may assign to a key outside the mapping
CallerValues(k) ==
    IF k = "backend" THEN {Str("pdf")} ELSE {Num(Whole(3))}

(* -------------------------------- state -------------------------------- *)

\* One active destination(d) call: the generator's locals (token, and orig
\* inside rc_context) and where it stands.  pre, ran and wrote are history:
\* the store on entry (kept where a single context runs), whether the block
\* was reached, and what the caller last assigned while the scope was active.
NoWrites == [k \in OtherKeys |-> None]

NewFrame(d, token, pre) ==
    [dest |-> d, token |-> token, pre |-> pre, orig |-> None,
     pc |-> "rc_enter", how |-> "normal", ran |-> FALSE, wrote |-> NoWrites]

Top(c) == stack[c][Len(stack[c])]
SetTop(c, f) == [stack EXCEPT ![c][Len(stack[c])] = f]
Pop(c) == [stack EXCEPT ![c] = SubSeq(stack[c], 1, Len(stack[c]) - 1)]
At(c, pc) == Len(stack[c]) > 0 /\ Top(c).pc = pc

\* the caller's assignment of v to k, noted in every active scope
RECURSIVE NoteWrite(_, _, _)
NoteWrite(frames, k, v) ==
    IF Len(frames) = 0 THEN <<>>
    ELSE <<[Head(frames) EXCEPT !.wrote[k] = Some(v)]>>
         \o NoteWrite(Tail(frames), k, v)

\* the caller's own code is running in context c: at top level or inside
\* the block of the innermost scope, with no exception in flight
Running(c) == IF Len(stack[c]) = 0 THEN TRUE ELSE Top(c).pc = "block"
InCode(c) == ~exc[c] /\ Running(c)

NoCall ==
    [op |-> "none", dest |-> "", args |-> <<>>, factor |-> None,
     out |-> None, params |-> None]

Init ==
    /\ scaling_ctx = [c \in Contexts |-> None]
    /\ rcParams = MplDefaults
    /\ stack = [c \in Contexts |-> <<>>]
    /\ exc = [c \in Contexts |-> FALSE]
    /\ last = [c \in Contexts |-> None]
    /\ lastRestorer = 0
    /\ ret = NoCall

(* ----------------------- destination(d), by step ----------------------- *)

\* params, scaler = get_rc_params(destination)
\* token = _scaling_ctx.set(scaler(1.0))
\* (depth and dests bound the nesting and the names tried; note says whether
\* the frame keeps the history field pre)
Enter(c, depth, dests, note) ==
    /\ InCode(c)
    /\ Len(stack[c]) < depth
    /\ \E d \in dests :
         LET g == get_rc_params(d)
             v == scaler(<<Scalar(Whole(1))>>, g.scaling, scaling_ctx[c])
         IN  /\ scaling_ctx' = ctx_set(scaling_ctx, c, v.vals[1])
             /\ stack' = [stack EXCEPT ![c] =
                            Append(@, NewFrame(d, scaling_ctx[c],
                                IF note THEN Some(rcParams) ELSE None))]
    /\ last' = [last EXCEPT ![c] = None]
    /\ ret' = NoCall
    /\ UNCHANGED <<rcParams, exc, lastRestorer>>

\* with mpl.rc_context(params): entry succeeds and the block is reached
RcEnterOk(c) ==
    /\ At(c, "rc_enter")
    /\ rcParams' = rc_update(rcParams, get_rc_params(Top(c).dest).rc_params,
                             Len(ParamOrder))
    /\ stack' = SetTop(c, [Top(c) EXCEPT !.orig = Some(rc_snapshot(rcParams)),
                                         !.pc = "block", !.ran = TRUE])
    /\ UNCHANGED <<scaling_ctx, exc, last, lastRestorer, ret>>

\* with mpl.rc_context(params): the store raises at the n-th key, after the
\* keys before it were set; rc_context's own finally runs next
RcEnterReject(c) ==
    /\ At(c, "rc_enter")
    /\ \E n \in RejectAt :
         rcParams' = rc_update(rcParams, get_rc_params(Top(c).dest).rc_params,
                               n - 1)
    /\ stack' = SetTop(c, [Top(c) EXCEPT !.orig = Some(rc_snapshot(rcParams)),
                                         !.pc = "rc_exit", !.how = "rejected"])
    /\ exc' = [exc EXCEPT ![c] = TRUE]
    /\ UNCHANGED <<scaling_ctx, last, lastRestorer, ret>>

\* the block runs to its end
ExitBlock(c) ==
    /\ InCode(c)
    /\ At(c, "block")
    /\ stack' = SetTop(c, [Top(c) EXCEPT !.pc = "rc_exit"])
    /\ last' = [last EXCEPT ![c] = None]
    /\ ret' = NoCall
    /\ UNCHANGED <<scaling_ctx, rcParams, exc, lastRestorer>>

\* the block raises
Raise(c) ==
    /\ InCode(c)
    /\ At(c, "block")
    /\ stack' = SetTop(c, [Top(c) EXCEPT !.pc = "rc_exit", !.how = "raised"])
    /\ exc' = [exc EXCEPT ![c] = TRUE]
    /\ last' = [last EXCEPT ![c] = None]
    /\ ret' = NoCall
    /\ UNCHANGED <<scaling_ctx, rcParams, lastRestorer>>

\* an exception that left an inner scope is not handled in the enclosing
\* block and leaves that block too
Propagate(c) ==
    /\ exc[c]
    /\ At(c, "block")
    /\ stack' = SetTop(c, [Top(c) EXCEPT !.pc = "rc_exit", !.how = "raised"])
    /\ last' = [last EXCEPT ![c] = None]
    /\ UNCHANGED <<scaling_ctx, rcParams, exc, lastRestorer, ret>>

\* the caller handles the exception, in the enclosing block or at top level
Catch(c) ==
    /\ exc[c]
    /\ Running(c)
    /\ exc' = [exc EXCEPT ![c] = FALSE]
    /\ last' = [last EXCEPT ![c] = None]
    /\ UNCHANGED <<scaling_ctx, rcParams, stack, lastRestorer, ret>>

\* rc_context's finally: the store is reverted to orig
RcExit(c) ==
    /\ At(c, "rc_exit")
    /\ rcParams' = rc_restore(rcParams, Top(c).orig[1])
    /\ stack' = SetTop(c, [Top(c) EXCEPT !.pc = "ctx_reset"])
    /\ lastRestorer' = c
    /\ UNCHANGED <<scaling_ctx, exc, last, ret>>

\* finally: _scaling_ctx.reset(token); the generator ends and the scope is
\* left, with the exception (if any) still in flight
CtxReset(c) ==
    /\ At(c, "ctx_reset")
    /\ scaling_ctx' = [scaling_ctx EXCEPT ![c] =
                          ctx_reset(@, Top(c).token, Top(c).how)]
    /\ stack' = Pop(c)
    /\ last' = [last EXCEPT ![c] = Some(Top(c))]
    /\ UNCHANGED <<rcParams, exc, lastRestorer, ret>>

(* -------------------------- the caller's code -------------------------- *)

\* scale(*args) or scale(*args, scaling_factor=f)
CallScale(c) ==
    /\ InCode(c)
    /\ \E args \in ArgLists, f \in {None} \cup {Some(x) : x \in Factors} :
         ret' = [op |-> "scale", dest |-> "", args |-> args, factor |-> f,
                 out |-> Some(scale(args, f, scaling_ctx[c])), params |-> None]
    /\ UNCHANGED <<scaling_ctx, rcParams, stack, exc, last, lastRestorer>>

\* _, scaler = get_rc_params(d); scaler(*args)
CallScaler(c) ==
    /\ InCode(c)
    /\ \E d \in Destinations, args \in ArgLists :
         ret' = [op |-> "scaler", dest |-> d, args |-> args, factor |-> None,
                 out |-> Some(scaler(args, get_rc_params(d).scaling,
                                     scaling_ctx[c])),
                 params |-> None]
    /\ UNCHANGED <<scaling_ctx, rcParams, stack, exc, last, lastRestorer>>

\* params, scaler = get_rc_params(d); the factor is read off as scaler(1.0)
CallGetRcParams(c) ==
    /\ InCode(c)
    /\ \E d \in Destinations :
         LET g == get_rc_params(d)
         IN  ret' = [op |-> "get_rc_params", dest |-> d,
                     args |-> <<Scalar(Whole(1))>>, factor |-> None,
                     out |-> Some(scaler(<<Scalar(Whole(1))>>, g.scaling,
                                         scaling_ctx[c])),
                     params |-> Some(g.rc_params)]
    /\ UNCHANGED <<scaling_ctx, rcParams, stack, exc, last, lastRestorer>>

\* the caller assigns mpl.rcParams[k] = v for a key outside the mapping
SetKey(c) ==
    /\ InCode(c)
    /\ \E k \in OtherKeys :
         \E v \in CallerValues(k) :
            /\ rcParams[k] # v
            /\ rcParams' = [rcParams EXCEPT ![k] = v]
            /\ stack' = [stack EXCEPT ![c] = NoteWrite(@, k, v)]
    /\ last' = [last EXCEPT ![c] = None]
    /\ ret' = NoCall
    /\ UNCHANGED <<scaling_ctx, exc, lastRestorer>>

(* ---------------------------- specifications --------------------------- *)

\* two logical contexts running destination scopes concurrently, the first
\* nesting one level deeper than the second
ConcDepth(c) == IF c = 1 THEN MaxDepth ELSE MaxConcDepth

Next ==
    \E c \in Contexts :
        \/ Enter(c, ConcDepth(c), ConcDestinations, FALSE)
        \/ RcEnterOk(c)
        \/ ExitBlock(c)
        \/ Raise(c)
        \/ Catch(c)
        \/ RcExit(c)
        \/ CtxReset(c)

Spec == Init /\ [][Next]_vars

\* one logical context, whose blocks call scale and get_rc_params
NextSeq ==
    \E c \in SeqContexts :
        \/ Enter(c, MaxDepth, Destinations, TRUE)
        \/ RcEnterOk(c)
        \/ RcEnterReject(c)
        \/ ExitBlock(c)
        \/ Raise(c)
        \/ Propagate(c)
        \/ Catch(c)
        \/ RcExit(c)
        \/ CtxReset(c)
        \/ CallScale(c)
        \/ CallScaler(c)
        \/ CallGetRcParams(c)

SpecSeq == Init /\ [][NextSeq]_vars

\* one logical context, whose blocks assign configuration keys themselves
NextCaller ==
    \E c \in SeqContexts :
        \/ Enter(c, MaxDepth, Destinations, TRUE)
        \/ RcEnterOk(c)
        \/ RcEnterReject(c)
        \/ ExitBlock(c)
        \/ Raise(c)
        \/ Propagate(c)
        \/ Catch(c)
        \/ RcExit(c)
        \/ CtxReset(c)
        \/ SetKey(c)

SpecCaller == Init /\ [][NextCaller]_vars

(* ------------------------------ properties ----------------------------- *)

Figma == <<25, 8>>
Unit == <<1, 1>>

\* the factor a destination name stands for
FactorOf(d) == IF d = "figma" THEN Figma ELSE Unit

\* the factor of the innermost scope still active in c, 1.0 when none is
Innermost(c) == IF Len(stack[c]) = 0 THEN Unit ELSE FactorOf(Top(c).dest)

Exited(c) == last[c] # None
Left(c) == last[c][1]

\* what the store holds for the keys of d's mapping once d is applied
Applied(d, k) == validate(k, get_rc_params(d).rc_params[k])

\* C1: in one logical context, scale(x) with no explicit factor returns x
\* times the factor of the innermost scope still active, and x times 1.0
\* when no scope is active, after any nesting of entries and exits.
C1_ScaleUsesInnermost ==
    \A c \in SeqContexts :
        (ret.op = "scale" /\ ret.factor = None /\ Len(ret.args) = 1
            /\ ret.args[1].shape = "scalar")
        => ret.out = Some(Scalar(Mul(ret.args[1].vals[1], Innermost(c))))

\* scale(1.0) is 300/96 once an inner "default" scope has exited inside an
\* outer "figma" scope
C1_Witness ==
    /\ Exited(1) /\ Left(1).dest = "default" /\ Left(1).how = "normal"
    /\ Len(stack[1]) = 1 /\ Top(1).dest = "figma"
    /\ ret.op = "scale" /\ ret.factor = None
    /\ ret.args = <<Scalar(Unit)>>
    /\ ret.out = Some(Scalar(Figma))

\* the value "backend" holds once scope r is left: the one the caller last
\* assigned while r was active, else the one from before the entry
BackendAfter(r) ==
    IF r.wrote["backend"] # None THEN r.wrote["backend"][1]
    ELSE r.pre[1]["backend"]

\* every key but "backend" holds its value from before r's entry
RevertedButBackend(r) ==
    \A k \in Keys \ {"backend"} : rcParams[k] = r.pre[1][k]

\* C2 as stated: when the block raises, then once the exception has left
\* the scope the ambient factor and the whole store hold their values from
\* before the entry, and the exception is still in flight.
C2_AllRestoredOnException ==
    \A c \in SeqContexts :
        (Exited(c) /\ Left(c).how = "raised")
        => /\ scaling_ctx[c] = Left(c).token
           /\ Some(rcParams) = Left(c).pre
           /\ exc[c]

\* C2: when the block raises, then once the exception has left the scope
\* the ambient factor and every key of the store except "backend" hold
\* their values from before the entry, "backend" holds the value the block
\* assigned to it if it assigned one, and the exception is still in flight
\* towards the caller.
C2_RestoredOnException ==
    \A c \in SeqContexts :
        (Exited(c) /\ Left(c).how = "raised")
        => /\ scaling_ctx[c] = Left(c).token
           /\ RevertedButBackend(Left(c))
           /\ rcParams["backend"] = BackendAfter(Left(c))
           /\ exc[c]

\* a "figma" scope nested in a "default" scope was left by an exception
\* raised after the block had assigned lines.linewidth
C2_Witness ==
    /\ Exited(1) /\ Left(1).how = "raised" /\ Left(1).dest = "figma"
    /\ Left(1).ran
    /\ Left(1).token = Some(Unit)
    /\ Left(1).wrote["lines.linewidth"] = Some(Num(Whole(3)))
    /\ rcParams["lines.linewidth"] = Num(<<3, 2>>)
    /\ rcParams["font.size"] = Num(Whole(6))
    /\ Len(stack[1]) = 1 /\ Top(1).dest = "default"
    /\ exc[1]

\* C3 as stated: when an inner scope has exited inside an outer one, every
\* key of the outer mapping holds the outer scope's value again, and when
\* the outermost scope has exited the whole store is the one from before it.
C3_StoreNestsWhole ==
    \A c \in SeqContexts :
        Exited(c) =>
            IF Len(stack[c]) > 0
            THEN \A k \in ParamKeys : rcParams[k] = Applied(Top(c).dest, k)
            ELSE Some(rcParams) = Left(c).pre

\* C3: the store nests: when an inner scope has exited inside an outer one,
\* every key of the outer mapping holds the outer scope's value again, and
\* when the outermost scope has exited every key except "backend" holds its
\* value from before the outer entry, while "backend" holds the value a
\* block assigned to it if one did.
C3_StoreNests ==
    \A c \in SeqContexts :
        Exited(c) =>
            IF Len(stack[c]) > 0
            THEN \A k \in ParamKeys : rcParams[k] = Applied(Top(c).dest, k)
            ELSE /\ RevertedButBackend(Left(c))
                 /\ rcParams["backend"] = BackendAfter(Left(c))

\* font.size is 6 * 300/96 after an inner "default" scope exits inside an
\* outer "figma" scope whose block had assigned backend before
C3_Witness ==
    /\ Exited(1) /\ Left(1).dest = "default" /\ Left(1).ran
    /\ Len(stack[1]) = 1 /\ Top(1).dest = "figma" /\ Top(1).pc = "block"
    /\ Top(1).wrote["backend"] = Some(Str("pdf"))
    /\ Left(1).wrote["backend"] = None
    /\ rcParams["font.size"] = Num(<<75, 4>>)

\* what scale(x) with no explicit factor returns in context c
ScaleIn(amb, c, x) == scale(<<Scalar(x)>>, None, amb[c])

\* C4: a step taken by one context never changes what scale(x) returns in
\* the other, and a context that has left a scope holds the factor it held
\* before entering it.
C4_AmbientIsolated ==
    /\ [][\A c \in Contexts :
            (stack'[c] = stack[c] /\ exc'[c] = exc[c])
            => \A x \in Scalars :
                 ScaleIn(scaling_ctx', c, x) = ScaleIn(scaling_ctx, c, x)]_vars
    /\ [](\A c \in Contexts : Exited(c) => scaling_ctx[c] = Left(c).token)

\* context 2 has entered and left a "default" scope while context 1 is
\* inside a "figma" scope nested in a "default" one
C4_Witness ==
    /\ Len(stack[1]) = 2 /\ Top(1).dest = "figma" /\ Top(1).pc = "block"
    /\ stack[1][1].dest = "default"
    /\ Exited(2) /\ Left(2).dest = "default"
    /\ ScaleIn(scaling_ctx, 1, Whole(2)) = Scalar(<<25, 4>>)
    /\ ScaleIn(scaling_ctx, 2, Whole(2)) = Scalar(Whole(2))

\* the base size of each text-size setting
BaseSize(k) ==
    CASE k \in {"xtick.labelsize", "ytick.labelsize"} -> 5
      [] k \in {"figure.titlesize", "figure.labelsize"} -> 7
      [] OTHER -> 6

TextSizeKeys ==
    {"font.size", "axes.titlesize", "axes.labelsize", "xtick.labelsize",
     "ytick.labelsize", "legend.fontsize", "figure.titlesize",
     "figure.labelsize"}

\* C5: get_rc_params(d) uses 300/96 = 3.125 for "figma" and 1.0 for every
\* other name; each text size is its base size times the factor,
\* figure.dpi is 150 over the factor and savefig.dpi is 300.
C5_ParamsFollowFactor ==
    ret.op = "get_rc_params" =>
        LET f == IF ret.dest = "figma" THEN Norm(<<3125, 1000>>) ELSE Unit
            m == ret.params[1]
        IN  /\ ret.out = Some(Scalar(f))
            /\ \A k \in TextSizeKeys : m[k] = Num(Mul(Whole(BaseSize(k)), f))
            /\ m["figure.dpi"] = Num(Div(Whole(150), f))
            /\ m["savefig.dpi"] = Num(Whole(300))

\* get_rc_params("figma"): font.size 18.75, figure.dpi 48
C5_Witness ==
    /\ ret.op = "get_rc_params" /\ ret.dest = "figma"
    /\ ret.params[1]["font.size"] = Num(<<75, 4>>)
    /\ ret.params[1]["figure.dpi"] = Num(Whole(48))
    /\ ret.out = Some(Scalar(Figma))

\* C6: scale(x, f) is the number x * f, and scale(S, f) for a tuple S is a
\* tuple of the same length whose i-th element is S[i] * f.
C6_ShapePreserved ==
    (ret.op = "scale" /\ ret.factor # None /\ Len(ret.args) = 1) =>
        LET a == ret.args[1]
            f == ret.factor[1]
            r == ret.out[1]
        IN  /\ r.shape = a.shape
            /\ Len(r.vals) = Len(a.vals)
            /\ \A i \in 1..Len(a.vals) : r.vals[i] = Mul(a.vals[i], f)

\* scale((2, -1.5), 3.125) == (6.25, -4.6875)
C6_Witness ==
    /\ ret.op = "scale" /\ ret.factor = Some(Figma)
    /\ ret.args = <<Tuple(<<Whole(2), <<-3, 2>>>>)>>
    /\ ret.out = Some(Tuple(<<<<25, 4>>, <<-75, 16>>>>))

\* the numbers among the arguments of a call, in order
Flat(args) ==
    IF Len(args) = 1 THEN args[1].vals
    ELSE [i \in 1..Len(args) |-> args[i].vals[1]]

\* C7: the scaler from get_rc_params(d) multiplies by d's factor whatever
\* scopes are active, and calling it leaves the ambient factor unchanged.
C7_ScalerIgnoresAmbient ==
    /\ [](ret.op = "scaler" =>
            /\ Len(ret.out[1].vals) = Len(Flat(ret.args))
            /\ \A i \in 1..Len(Flat(ret.args)) :
                 ret.out[1].vals[i] = Mul(Flat(ret.args)[i], FactorOf(ret.dest)))
    /\ [][(ret' # ret /\ ret'.op = "scaler") => scaling_ctx' = scaling_ctx]_vars

\* the "figma" scaler called inside a "default" scope nested in a "figma"
\* scope, and the "default" scaler called inside a "figma" scope
C7_Witness ==
    /\ ret.op = "scaler" /\ ret.dest = "figma"
    /\ ret.args = <<Scalar(Whole(2))>>
    /\ ret.out = Some(Scalar(<<25, 4>>))
    /\ Len(stack[1]) = 2 /\ Top(1).dest = "default"
    /\ scaling_ctx[1] = Some(Unit)

\* C8 as stated: a key outside the mapping that the caller assigned inside
\* the block still holds the caller's value once the scope is left.
C8_CallerValueKept ==
    \A c \in SeqContexts :
        Exited(c) =>
            \A k \in OtherKeys :
                Left(c).wrote[k] # None => rcParams[k] = Left(c).wrote[k][1]

\* C8: once a scope is left, every key but "backend" holds its value from
\* before the entry, whether or not the mapping names it, so the caller's
\* assignment to such a key inside the block is reverted; "backend" alone
\* keeps the value the caller assigned.
C8_AllButBackendReverted ==
    \A c \in SeqContexts :
        Exited(c) =>
            /\ \A k \in Keys \ {"backend"} : rcParams[k] = Left(c).pre[1][k]
            /\ Left(c).wrote["backend"] # None
                  => rcParams["backend"] = Left(c).wrote["backend"][1]

\* the caller assigned lines.linewidth and backend inside the block
C8_Witness ==
    /\ Exited(1) /\ Left(1).how = "normal"
    /\ Left(1).wrote["lines.linewidth"] = Some(Num(Whole(3)))
    /\ rcParams["lines.linewidth"] = Num(<<3, 2>>)
    /\ Left(1).wrote["backend"] = Some(Str("pdf"))
    /\ Left(1).pre[1]["backend"] = Str("agg")
    /\ rcParams["backend"] = Str("pdf")

\* C9: the ambient factor is d's factor while the override is attempted;
\* when the store rejects the mapping the error reaches the caller, the
\* block has not run, and the ambient factor is the one from before entry.
C9_RejectedEntry ==
    \A c \in SeqContexts :
        /\ (At(c, "rc_enter") \/ (At(c, "rc_exit") /\ Top(c).how = "rejected"))
              => ctx_get(scaling_ctx[c]) = FactorOf(Top(c).dest)
        /\ (Exited(c) /\ Left(c).how = "rejected")
              => /\ exc[c]
                 /\ ~Left(c).ran
                 /\ scaling_ctx[c] = Left(c).token
                 /\ Some(rcParams) = Left(c).pre

\* entry to a "figma" scope inside a "default" scope was rejected
C9_Witness ==
    /\ Exited(1) /\ Left(1).how = "rejected" /\ Left(1).dest = "figma"
    /\ Left(1).token = Some(Unit)
    /\ scaling_ctx[1] = Some(Unit)
    /\ exc[1]
    /\ Len(stack[1]) = 1

\* context 1 ran a "figma" scope entered on the untouched store, context 2
\* entered a "default" scope while 1's overrides were in place and left it
\* after 1 had left, and both are outside every scope
NonLifoDone ==
    /\ Len(stack[1]) = 0 /\ Len(stack[2]) = 0
    /\ Exited(1) /\ Left(1).dest = "figma"
    /\ Left(1).orig = Some(rc_snapshot(MplDefaults))
    /\ Exited(2) /\ Left(2).dest = "default"
    /\ Left(2).orig = Some(rc_snapshot([k \in Keys |->
                          IF k \in ParamKeys THEN Applied("figma", k)
                          ELSE MplDefaults[k]]))
    /\ lastRestorer = 2

\* C10: after such overlapping scopes left in non-LIFO order the store is
\* not the one from before either entry: it carries the "figma" overrides,
\* while each context's ambient factor is back at its default.
C10_OverlapLeavesOverrides ==
    NonLifoDone =>
        /\ rcParams # MplDefaults
        /\ \A k \in ParamKeys : rcParams[k] = Applied("figma", k)
        /\ scaling_ctx[1] = None /\ scaling_ctx[2] = None

C10_Witness ==
    /\ NonLifoDone
    /\ rcParams["font.size"] = Num(<<75, 4>>)
    /\ ~exc[1] /\ ~exc[2]
    /\ Left(1).how = "normal" /\ Left(2).how = "normal"

====
